---- MODULE Spec2Model ----
(***************************************************************************)
(* Model of the conservative invoice table parser (table_parser.py):      *)
(* parse_invoice_table, analyze_table and the values they exchange.       *)
(* Python strings are sequences of one-character strings.  Numbers stay   *)
(* below 2^31 and floats are exact decimals in plain notation (str() of a *)
(* float between 1e-4 and 1e16); float rounding is not modelled.          *)
(***************************************************************************)
EXTENDS Integers, Sequences, FiniteSets, TLC

(***************************************************************************)
(* Bounds of the model                                                     *)
(***************************************************************************)
\* number of lines of a source text
MaxLines == 2
\* number of rows handed directly to analyze_table
MaxRows == 2

(***************************************************************************)
(* Characters and character classes (re: \d, \s; str.upper)                *)
(***************************************************************************)
Digits == <<"0", "1", "2", "3", "4", "5", "6", "7", "8", "9">>

DigitSet == {Digits[i] : i \in 1..10}

DigitVal(c) == (CHOOSE i \in 1..10 : Digits[i] = c) - 1

Whitespace == {" ", "\t", "\n"}

LowerCase == <<"a", "b", "c", "d", "e", "f", "g", "h", "i", "j", "k", "l", "m",
               "n", "o", "p", "q", "r", "s", "t", "u", "v", "w", "x", "y", "z">>

UpperCase == <<"A", "B", "C", "D", "E", "F", "G", "H", "I", "J", "K", "L", "M",
               "N", "O", "P", "Q", "R", "S", "T", "U", "V", "W", "X", "Y", "Z">>

LowerSet == {LowerCase[i] : i \in 1..26}

UpperOf == [c \in LowerSet |-> UpperCase[CHOOSE i \in 1..26 : LowerCase[i] = c]]

upper_char(c) == IF c \in LowerSet THEN UpperOf[c] ELSE c

upper(s) == [i \in 1..Len(s) |-> upper_char(s[i])]

(***************************************************************************)
(* str.strip, str.split('\n'), substring test, str.replace(',', '')        *)
(***************************************************************************)
RECURSIVE lstrip(_)
lstrip(s) ==
    IF s # <<>> /\ Head(s) \in Whitespace THEN lstrip(Tail(s)) ELSE s

RECURSIVE rstrip(_)
rstrip(s) ==
    IF s # <<>> /\ s[Len(s)] \in Whitespace
    THEN rstrip(SubSeq(s, 1, Len(s) - 1))
    ELSE s

strip(s) == rstrip(lstrip(s))

RECURSIVE split(_)
split(s) ==
    IF \E i \in 1..Len(s) : s[i] = "\n"
    THEN LET i == CHOOSE k \in 1..Len(s) :
                      s[k] = "\n" /\ \A j \in 1..(k - 1) : s[j] # "\n"
         IN  <<SubSeq(s, 1, i - 1)>> \o split(SubSeq(s, i + 1, Len(s)))
    ELSE <<s>>

\* sub occurs in s starting at position p
StartsAt(s, p, sub) ==
    /\ p >= 1
    /\ p + Len(sub) - 1 <= Len(s)
    /\ \A i \in 1..Len(sub) : s[p + i - 1] = sub[i]

contains(s, sub) == \E p \in 1..(Len(s) + 1) : StartsAt(s, p, sub)

RECURSIVE remove_commas(_)
remove_commas(s) ==
    IF s = <<>> THEN <<>>
    ELSE IF Head(s) = "," THEN remove_commas(Tail(s))
    ELSE <<Head(s)>> \o remove_commas(Tail(s))

(***************************************************************************)
(* Runs of a character class: the greedy quantifiers of the patterns       *)
(***************************************************************************)
\* first position of the maximal run of class C that ends at p (p+1: none)
RECURSIVE RunStart(_, _, _)
RunStart(s, p, C) ==
    IF p >= 1 /\ p <= Len(s) /\ s[p] \in C THEN RunStart(s, p - 1, C) ELSE p + 1

\* last position of the maximal run of class C that starts at p (p-1: none)
RECURSIVE RunEnd(_, _, _)
RunEnd(s, p, C) ==
    IF p >= 1 /\ p <= Len(s) /\ s[p] \in C THEN RunEnd(s, p + 1, C) ELSE p - 1

(***************************************************************************)
(* Python values of the numeric cells of a row.  A cell holds '' (the      *)
(* unfilled sentinel), an int, or a float.  A float is the decimal         *)
(* m / 10^e with trailing zeros removed.                                   *)
(***************************************************************************)
EMPTY == [t |-> "str", m |-> 0, e |-> 0]

PyInt(n) == [t |-> "int", m |-> n, e |-> 0]

RECURSIVE Pow10(_)
Pow10(n) == IF n = 0 THEN 1 ELSE 10 * Pow10(n - 1)

RECURSIVE PyFloat(_, _)
PyFloat(m, e) ==
    IF e > 0 /\ m % 10 = 0
    THEN PyFloat(m \div 10, e - 1)
    ELSE [t |-> "float", m |-> m, e |-> e]

\* bool(x): '' , 0 and 0.0 are falsy
truthy(x) == x.t # "str" /\ x.m # 0

\* x != ''
not_empty_str(x) == x # EMPTY

\* isinstance(x, (int, float))
is_number(x) == x.t \in {"int", "float"}

\* int(s) for s matched by \d+
RECURSIVE to_int(_)
to_int(s) ==
    IF s = <<>> THEN 0
    ELSE 10 * to_int(SubSeq(s, 1, Len(s) - 1)) + DigitVal(s[Len(s)])

\* float(s) succeeds: digits, digits '.' digits, with a digit on either side
float_ok(s) ==
    LET a == RunEnd(s, 1, DigitSet)
    IN  \/ a >= 1 /\ a = Len(s)
        \/ /\ a < Len(s)
           /\ s[a + 1] = "."
           /\ RunEnd(s, a + 2, DigitSet) = Len(s)
           /\ (a >= 1 \/ Len(s) >= a + 2)

\* float(s) where float_ok(s)
float(s) ==
    LET a  == RunEnd(s, 1, DigitSet)
        ip == SubSeq(s, 1, a)
        fp == SubSeq(s, a + 2, Len(s))
    IN  PyFloat(to_int(ip \o fp), Len(fp))

RECURSIVE nat_digits(_)
nat_digits(n) ==
    IF n < 10 THEN <<Digits[n + 1]>>
    ELSE nat_digits(n \div 10) \o <<Digits[(n % 10) + 1]>>

RECURSIVE frac_digits(_, _)
frac_digits(f, e) ==
    IF e = 0 THEN <<>>
    ELSE frac_digits(f \div 10, e - 1) \o <<Digits[(f % 10) + 1]>>

\* str(x) of a float x: shortest decimal, at least one fraction digit
str_float(x) ==
    nat_digits(x.m \div Pow10(x.e)) \o <<".">> \o
    (IF x.e = 0 THEN <<"0">> ELSE frac_digits(x.m % Pow10(x.e), x.e))

\* x + y as sum() adds ints and floats
add(x, y) ==
    LET e == IF x.e > y.e THEN x.e ELSE y.e
        m == x.m * Pow10(e - x.e) + y.m * Pow10(e - y.e)
    IN  IF x.t = "int" /\ y.t = "int" THEN PyInt(x.m + y.m) ELSE PyFloat(m, e)

(***************************************************************************)
(* The regular expressions of parse_invoice_table                          *)
(***************************************************************************)
DecimalChars == DigitSet \cup {"."}

TotalChars == DigitSet \cup {",", "."}

\* \d+(?:\.\d+)? matches the whole of s
IsDecimal(s) ==
    LET a == RunEnd(s, 1, DigitSet)
    IN  /\ a >= 1
        /\ \/ a = Len(s)
           \/ /\ a + 2 <= Len(s)
              /\ s[a + 1] = "."
              /\ RunEnd(s, a + 2, DigitSet) = Len(s)

\* [\d,]+\.?\d* matches the whole of s
IsTotal(s) ==
    LET a == RunEnd(s, 1, DigitSet \cup {","})
    IN  /\ a >= 1
        /\ \/ a = Len(s)
           \/ /\ s[a + 1] = "."
              /\ RunEnd(s, a + 2, DigitSet) = Len(s)

NoMatch == [ok |-> FALSE, g1 |-> <<>>, g2 |-> <<>>, g3 |-> <<>>]

\* r'(\d+)\s+(\d+(?:\.\d+)?)\s+([\d,]+\.?\d*)$'
clean_pattern(line) ==
    LET n  == Len(line)
        t3 == RunStart(line, n, TotalChars)
        w2 == RunStart(line, t3 - 1, Whitespace)
        t2 == RunStart(line, w2 - 1, DecimalChars)
        w1 == RunStart(line, t2 - 1, Whitespace)
        t1 == RunStart(line, w1 - 1, DigitSet)
    IN  IF /\ t3 <= n /\ IsTotal(SubSeq(line, t3, n))
           /\ w2 < t3
           /\ t2 < w2 /\ IsDecimal(SubSeq(line, t2, w2 - 1))
           /\ w1 < t2
           /\ t1 < w1
        THEN [ok |-> TRUE, g1 |-> SubSeq(line, t1, w1 - 1),
              g2 |-> SubSeq(line, t2, w2 - 1), g3 |-> SubSeq(line, t3, n)]
        ELSE NoMatch

\* r'(\d+)\s+(\d+(?:\.\d+)?)\s*:\s*([\d,]+\.?\d*)$'
colon_pattern(line) ==
    LET n  == Len(line)
        t3 == RunStart(line, n, TotalChars)
        w3 == RunStart(line, t3 - 1, Whitespace)
        w2 == RunStart(line, w3 - 2, Whitespace)
        t2 == RunStart(line, w2 - 1, DecimalChars)
        w1 == RunStart(line, t2 - 1, Whitespace)
        t1 == RunStart(line, w1 - 1, DigitSet)
    IN  IF /\ t3 <= n /\ IsTotal(SubSeq(line, t3, n))
           /\ w3 >= 2 /\ line[w3 - 1] = ":"
           /\ t2 < w2 /\ IsDecimal(SubSeq(line, t2, w2 - 1))
           /\ w1 < t2
           /\ t1 < w1
        THEN [ok |-> TRUE, g1 |-> SubSeq(line, t1, w1 - 1),
              g2 |-> SubSeq(line, t2, w2 - 1), g3 |-> SubSeq(line, t3, n)]
        ELSE NoMatch

\* r'(\d+(?:\.\d+)?)\s+([\d,]+\.?\d*)$' ; g1 is unused
price_pattern(line) ==
    LET n  == Len(line)
        t3 == RunStart(line, n, TotalChars)
        w2 == RunStart(line, t3 - 1, Whitespace)
        d2 == RunStart(line, w2 - 1, DigitSet)
        d1 == RunStart(line, d2 - 2, DigitSet)
        t2 == IF d2 >= 3 /\ line[d2 - 1] = "." /\ d1 <= d2 - 2 THEN d1 ELSE d2
    IN  IF /\ t3 <= n /\ IsTotal(SubSeq(line, t3, n))
           /\ w2 < t3
           /\ d2 < w2
        THEN [ok |-> TRUE, g1 |-> <<>>,
              g2 |-> SubSeq(line, t2, w2 - 1), g3 |-> SubSeq(line, t3, n)]
        ELSE NoMatch

\* r'(\d+)(?:\s+|\s*\.\s*)' + re.escape(lit) matches at position i
qty_match_at(line, i, lit) ==
    LET d == RunEnd(line, i, DigitSet)
        a == RunEnd(line, d + 1, Whitespace)
    IN  /\ d >= i
        /\ \/ \E k \in (d + 1)..a : StartsAt(line, k + 1, lit)
           \/ \E j \in d..a :
                 /\ j + 1 <= Len(line) /\ line[j + 1] = "."
                 /\ \E k \in (j + 1)..RunEnd(line, j + 2, Whitespace) :
                       StartsAt(line, k + 1, lit)

\* re.search(qty_pattern, line): the leftmost match, group 1 in g1
qty_pattern(line, lit) ==
    LET starts == {i \in 1..Len(line) : qty_match_at(line, i, lit)}
        i == CHOOSE k \in starts : \A j \in starts : k <= j
    IN  IF starts = {} THEN NoMatch
        ELSE [ok |-> TRUE, g1 |-> SubSeq(line, i, RunEnd(line, i, DigitSet)),
              g2 |-> <<>>, g3 |-> <<>>]

HSO == <<"H", "S", "O">>

CHINA == <<"C", "H", "I", "N", "A">>

HSO_CHINA == HSO \o <<" ">> \o CHINA

\* variant of marker_at: the lookahead asks for CHINA only
marker_at_china_only(u, p) == StartsAt(u, p, CHINA)

\* (?=HSO\s+CHINA) with re.IGNORECASE holds at position p of the line whose
\* upper-case form is u
marker_at(u, p) ==
    /\ StartsAt(u, p, HSO)
    /\ \E k \in (p + 3)..RunEnd(u, p + 3, Whitespace) : StartsAt(u, k + 1, CHINA)

\* re.search(r'^(.+?)(?=HSO\s+CHINA)', line, re.IGNORECASE); group 1 in g1
product_match(line) ==
    LET u == upper(line)
        ends == {k \in 1..Len(line) : marker_at(u, k + 1)}
        k == CHOOSE x \in ends : \A y \in ends : x <= y
    IN  IF ends = {} THEN NoMatch
        ELSE [ok |-> TRUE, g1 |-> SubSeq(line, 1, k), g2 |-> <<>>, g3 |-> <<>>]

\* shortest digit run that re.sub(r'\d{8,}', '', ...) removes
MinCodeDigits == 8

\* re.sub(r'\d{8,}', '', s) from position p on
RECURSIVE sub_long_digits(_, _)
sub_long_digits(s, p) ==
    IF p > Len(s) THEN <<>>
    ELSE IF s[p] \in DigitSet
         THEN LET d == RunEnd(s, p, DigitSet)
              IN  (IF d - p + 1 >= MinCodeDigits THEN <<>> ELSE SubSeq(s, p, d))
                  \o sub_long_digits(s, d + 1)
         ELSE <<s[p]>> \o sub_long_digits(s, p + 1)

\* re.sub(r'\s+', ' ', s) from position p on
RECURSIVE sub_spaces(_, _)
sub_spaces(s, p) ==
    IF p > Len(s) THEN <<>>
    ELSE IF s[p] \in Whitespace
         THEN <<" ">> \o sub_spaces(s, RunEnd(s, p, Whitespace) + 1)
         ELSE <<s[p]>> \o sub_spaces(s, p + 1)

\* variant of product_clean: the whitespace runs are not collapsed
product_clean_no_collapse(g) == strip(sub_long_digits(strip(g), 1))

\* lines 47-50: the cleaned product name of group 1
product_clean(g) ==
    strip(sub_spaces(strip(sub_long_digits(strip(g), 1)), 1))

(***************************************************************************)
(* Source texts: up to MaxLines lines of the kinds an invoice text holds    *)
(***************************************************************************)
\* all three numbers, whitespace separated (tier A)
LineTierA ==
    <<"A", "B", "C", " ", "H", "S", "O", " ", "C", "H", "I", "N", "A", " ", "4", " ", "2", ".", "0", "0", " ", "8", ".", "0", "0">>

\* a colon between the prices (tier B)
LineTierB ==
    <<"A", "B", "C", " ", "H", "S", "O", " ", "C", "H", "I", "N", "A", " ", "1", "1", " ", "2", ".", "5", "0", " ", ":", " ", "2", "7", ".", "5", "0">>

\* quantity misread, lower-case marker (tier C)
LineTierC ==
    <<"A", "B", "C", " ", "h", "s", "o", " ", "c", "h", "i", "n", "a", " ", "i", " ", "2", ".", "0", "0", " ", "8", ".", "0", "0">>

\* stray period after the quantity (tier C, then recovery)
LineStrayPeriod ==
    <<"A", "B", "C", " ", "H", "S", "O", " ", "C", "H", "I", "N", "A", " ", "4", ".", " ", "2", ".", "0", "0", " ", "8", ".", "0", "0">>

\* quantity 0, and an integer before the unit price in the name
LineZeroQty ==
    <<"A", "B", " ", "5", " ", "2", ".", "0", " ", "H", "S", "O", " ", "C", "H", "I", "N", "A", " ", "0", " ", "2", ".", "0", "0", " ", "3", ".", "0", "0">>

\* quantity 0 and total 0.00
LineZeroAll ==
    <<"A", "B", "C", " ", "H", "S", "O", " ", "C", "H", "I", "N", "A", " ", "0", " ", "2", ".", "0", "0", " ", "0", ".", "0", "0">>

\* a total made only of a comma
LineCommaTotal ==
    <<"A", "B", "C", " ", "H", "S", "O", " ", "C", "H", "I", "N", "A", " ", "4", " ", "2", ".", "0", "0", " ", ",">>

\* a two-character product name
LineShortName ==
    <<"A", "B", " ", "H", "S", "O", " ", "C", "H", "I", "N", "A", " ", "4", " ", "2", ".", "0", "0", " ", "8", ".", "0", "0">>

\* a barcode in the name, two spaces inside the marker, grouped total
LineBarcode ==
    <<"A", " ", "1", "2", "3", "4", "5", "6", "7", "8", " ", "B", " ", "H", "S", "O", " ", " ", "C", "H", "I", "N", "A", " ", "3", " ", "1", ".", "5", "0", " ", "4", ",", "0", "0", "0">>

\* CHINA without HSO
LineChinaOnly ==
    <<"A", "B", "C", " ", "C", "H", "I", "N", "A", " ", "4", " ", "2", ".", "0", "0", " ", "8", ".", "0", "0">>

\* no marker
LineNoMarker ==
    <<"A", "B", "C", " ", "H", "S", "O", " ", "4", " ", "2", ".", "0", "0", " ", "8", ".", "0", "0">>

\* an empty line
LineBlank ==
    <<>>

\* leading and trailing blanks, no numbers
LinePadded ==
    <<" ", " ", "A", "B", "C", " ", "H", "S", "O", " ", "C", "H", "I", "N", "A", " ", "x", " ">>

\* tab inside the marker, integer unit price
LineIntPrice ==
    <<"A", "B", "C", " ", "H", "S", "O", "\t", "C", "H", "I", "N", "A", " ", "7", ".", " ", "2", " ", "8", ".", "0", "0">>

\* a totals line
LineTotals ==
    <<"T", "O", "T", "A", "L", " ", "4", " ", "2", ".", "0", "0", " ", "8", ".", "0", "0">>

\* a name that is only a barcode
LineOnlyBarcode ==
    <<"1", "2", "3", "4", "5", "6", "7", "8", " ", "H", "S", "O", " ", "C", "H", "I", "N", "A", " ", "1", " ", "2", " ", "3">>

\* quantity misread, and an integer before the unit price value in the name
LineNameNumber ==
    <<"A", "B", " ", "5", " ", "2", ".", "0", " ", "H", "S", "O", " ", "C", "H", "I", "N", "A", " ", "i", " ", "2", ".", "0", "0", " ", "3", ".", "0", "0">>

\* a quantity and no prices
LineQtyOnly ==
    <<"A", "B", "C", " ", "H", "S", "O", " ", "C", "H", "I", "N", "A", " ", "4">>

\* stray period after the quantity, prices 0.00
LineZeroPrice ==
    <<"A", "B", "C", " ", "H", "S", "O", " ", "C", "H", "I", "N", "A", " ", "4", ".", " ", "0", ".", "0", "0", " ", "0", ".", "0", "0">>

SampleLines ==
    {LineTierA,
     LineTierB,
     LineTierC,
     LineStrayPeriod,
     LineZeroQty,
     LineZeroAll,
     LineCommaTotal,
     LineShortName,
     LineBarcode,
     LineChinaOnly,
     LineNoMarker,
     LineBlank,
     LinePadded,
     LineIntPrice,
     LineTotals,
     LineOnlyBarcode,
     LineNameNumber,
     LineQtyOnly,
     LineZeroPrice}

RECURSIVE join(_)
join(ls) ==
    IF Len(ls) = 0 THEN <<>>
    ELSE IF Len(ls) = 1 THEN ls[1]
    ELSE ls[1] \o <<"\n">> \o join(Tail(ls))

Texts ==
    {join(ls) : ls \in UNION {[1..k -> SampleLines] : k \in 0..MaxLines}}

(***************************************************************************)
(* State                                                                   *)
(***************************************************************************)
VARIABLES
    text,        \* the argument of parse_invoice_table
    lines,       \* text.strip().split('\n')
    line_num,    \* enumerate(lines, 1): number of the line last taken
    line,        \* the line being parsed, stripped
    row,         \* the row being built for line
    table_data,  \* rows appended so far; the return value
    exc,         \* exception propagating out of parse_invoice_table
    analysis,    \* the report of analyze_table
    csv_file,    \* the file at csv_path: absent, or its records in order
    pc           \* position in the program

vars ==
    <<text, lines, line_num, line, row, table_data, exc, analysis, csv_file, pc>>

\* the value of row outside the loop body
NoRow ==
    [Product |-> <<>>, Quantity |-> EMPTY, Unit_Price_USD |-> EMPTY,
     Total_Price_USD |-> EMPTY, Source_Line |-> 0, Raw_Text |-> <<>>]

\* the value of analysis before analyze_table ran
NoAnalysis == [status |-> "not run"]

\* no file at csv_path
NoFile == [exists |-> FALSE, records |-> <<>>]

Init ==
    /\ text \in Texts
    /\ lines = <<>>
    /\ line_num = 0
    /\ line = <<>>
    /\ row = NoRow
    /\ table_data = <<>>
    /\ exc = "none"
    /\ analysis = NoAnalysis
    /\ csv_file = NoFile
    /\ pc = "start"

(***************************************************************************)
(* parse_invoice_table                                                     *)
(***************************************************************************)
\* lines 22-23
Start ==
    /\ pc = "start"
    /\ lines' = split(strip(text))
    /\ table_data' = <<>>
    /\ pc' = "loop"
    /\ UNCHANGED <<csv_file, text, line_num, line, row, exc, analysis>>

\* line 31: the line is a candidate
is_candidate(l) ==
    LET u == upper(l)
    IN  ~(~contains(u, HSO_CHINA) /\ ~contains(u, CHINA))

\* lines 25-28: a blank line is passed over
SkipBlank ==
    /\ pc = "loop"
    /\ line_num < Len(lines)
    /\ strip(lines[line_num + 1]) = <<>>
    /\ line_num' = line_num + 1
    /\ UNCHANGED <<csv_file, text, lines, line, row, table_data, exc, analysis, pc>>

\* lines 25-32: a line without the marker is passed over
SkipLine ==
    /\ pc = "loop"
    /\ line_num < Len(lines)
    /\ strip(lines[line_num + 1]) # <<>>
    /\ ~is_candidate(strip(lines[line_num + 1]))
    /\ line_num' = line_num + 1
    /\ UNCHANGED <<csv_file, text, lines, line, row, table_data, exc, analysis, pc>>

\* lines 25-42: a candidate line starts a row of empty cells
NewRow ==
    /\ pc = "loop"
    /\ line_num < Len(lines)
    /\ strip(lines[line_num + 1]) # <<>>
    /\ is_candidate(strip(lines[line_num + 1]))
    /\ line_num' = line_num + 1
    /\ line' = strip(lines[line_num + 1])
    /\ row' = [Product |-> <<>>, Quantity |-> EMPTY, Unit_Price_USD |-> EMPTY,
               Total_Price_USD |-> EMPTY, Source_Line |-> line_num + 1,
               Raw_Text |-> strip(lines[line_num + 1])]
    /\ pc' = "product"
    /\ UNCHANGED <<csv_file, text, lines, table_data, exc, analysis>>

\* lines 44-51
ExtractProduct ==
    /\ pc = "product"
    /\ LET product == product_match(line)
       IN  row' = IF product.ok
                  THEN [row EXCEPT !.Product = product_clean(product.g1)]
                  ELSE row
    /\ pc' = "tierA"
    /\ UNCHANGED <<csv_file, text, lines, line_num, line, table_data, exc, analysis>>

\* variant of fill_three: the total price is not stored
fill_three_without_total(r, match) ==
    [r EXCEPT !.Quantity = PyInt(to_int(match.g1)),
              !.Unit_Price_USD = float(match.g2)]

\* lines 61-63, 69-71: int(g1), float(g2), float(g3.replace(',', ''))
fill_three(r, match) ==
    [r EXCEPT !.Quantity = PyInt(to_int(match.g1)),
              !.Unit_Price_USD = float(match.g2),
              !.Total_Price_USD = float(remove_commas(match.g3))]

\* variant of fill_prices: only the unit price is stored
fill_unit_price_only(r, match) ==
    [r EXCEPT !.Unit_Price_USD = float(match.g2)]

\* lines 77-78: float(g1), float(g2.replace(',', '')) of price_pattern
fill_prices(r, match) ==
    [r EXCEPT !.Unit_Price_USD = float(match.g2),
              !.Total_Price_USD = float(remove_commas(match.g3))]

\* lines 57-64: pattern 1
TierA ==
    /\ pc = "tierA"
    /\ LET match == clean_pattern(line)
       IN  IF match.ok
           THEN IF float_ok(remove_commas(match.g3))
                THEN /\ row' = fill_three(row, match)
                     /\ pc' = "recover"
                     /\ exc' = exc
                ELSE /\ exc' = "ValueError"
                     /\ pc' = "raised"
                     /\ row' = row
           ELSE /\ pc' = "tierB"
                /\ UNCHANGED <<row, exc>>
    /\ UNCHANGED <<csv_file, text, lines, line_num, line, table_data, analysis>>

\* lines 65-72: pattern 2
TierB ==
    /\ pc = "tierB"
    /\ LET match == colon_pattern(line)
       IN  IF match.ok
           THEN IF float_ok(remove_commas(match.g3))
                THEN /\ row' = fill_three(row, match)
                     /\ pc' = "recover"
                     /\ exc' = exc
                ELSE /\ exc' = "ValueError"
                     /\ pc' = "raised"
                     /\ row' = row
           ELSE /\ pc' = "tierC"
                /\ UNCHANGED <<row, exc>>
    /\ UNCHANGED <<csv_file, text, lines, line_num, line, table_data, analysis>>

\* lines 73-79: pattern 3
TierC ==
    /\ pc = "tierC"
    /\ LET match == price_pattern(line)
       IN  IF match.ok
           THEN IF float_ok(remove_commas(match.g3))
                THEN /\ row' = fill_prices(row, match)
                     /\ pc' = "recover"
                     /\ exc' = exc
                ELSE /\ exc' = "ValueError"
                     /\ pc' = "raised"
                     /\ row' = row
           ELSE /\ pc' = "recover"
                /\ UNCHANGED <<row, exc>>
    /\ UNCHANGED <<csv_file, text, lines, line_num, line, table_data, analysis>>

\* line 83: the condition of the recovery pass
needs_recovery(r) ==
    truthy(r.Unit_Price_USD) /\ truthy(r.Total_Price_USD) /\ ~truthy(r.Quantity)

\* lines 81-91
Recover ==
    /\ pc = "recover"
    /\ LET qty_match == qty_pattern(line, str_float(row.Unit_Price_USD))
       IN  row' = IF needs_recovery(row) /\ qty_match.ok
                  THEN [row EXCEPT !.Quantity = PyInt(to_int(qty_match.g1))]
                  ELSE row
    /\ pc' = "append"
    /\ UNCHANGED <<csv_file, text, lines, line_num, line, table_data, exc, analysis>>

\* line 94: a product name must be longer than this
MinProductLen == 2

\* variant of keep_row: the length test of line 94 is left out
keep_row_any_length(r) == r.Product # <<>>

\* line 94
keep_row(r) == r.Product # <<>> /\ Len(r.Product) > MinProductLen

\* variant of append: the row is put in front
append_in_front(rows, r) == <<r>> \o rows

\* line 95: table_data.append(row)
append(rows, r) == Append(rows, r)

\* lines 93-95
AppendRow ==
    /\ pc = "append"
    /\ table_data' = IF keep_row(row) THEN append(table_data, row) ELSE table_data
    /\ line' = <<>>
    /\ row' = NoRow
    /\ pc' = "loop"
    /\ UNCHANGED <<csv_file, text, lines, line_num, exc, analysis>>

\* line 97
Return ==
    /\ pc = "loop"
    /\ line_num = Len(lines)
    /\ pc' = "returned"
    /\ UNCHANGED <<csv_file, text, lines, line_num, line, row, table_data, exc, analysis>>

(***************************************************************************)
(* analyze_table                                                           *)
(***************************************************************************)
\* variant of sum_numbers: only rows with every numeric cell filled are added
RECURSIVE sum_complete_rows(_, _, _)
sum_complete_rows(rows, field, acc) ==
    IF rows = <<>> THEN acc
    ELSE sum_complete_rows(Tail(rows), field,
                           IF /\ is_number(Head(rows).Quantity)
                              /\ is_number(Head(rows).Unit_Price_USD)
                              /\ is_number(Head(rows).Total_Price_USD)
                           THEN add(acc, Head(rows)[field])
                           ELSE acc)

\* sum(row[field] for row in table_data if isinstance(row[field], (int, float)))
RECURSIVE sum_numbers(_, _, _)
sum_numbers(rows, field, acc) ==
    IF rows = <<>> THEN acc
    ELSE sum_numbers(Tail(rows), field,
                     IF is_number(Head(rows)[field])
                     THEN add(acc, Head(rows)[field])
                     ELSE acc)

\* num / den rounded to the nearest integer, ties to even
round_div(num, den) ==
    LET q == num \div den
        r == num % den
    IN  IF 2 * r > den \/ (2 * r = den /\ q % 2 = 1) THEN q + 1 ELSE q

\* f"{filled}/{total}"
format_ratio(filled, total) == nat_digits(filled) \o <<"/">> \o nat_digits(total)

\* f"{(filled / slots * 100):.1f}%"
format_rate(filled, slots) ==
    LET tenths == round_div(filled * 1000, slots)
    IN  nat_digits(tenths \div 10) \o <<".">> \o nat_digits(tenths % 10) \o <<"%">>

\* denominator factor of line 201: the number of optional fields of a row
OptionalFields == 3

\* line 179
products_filled(rows) ==
    Cardinality({i \in 1..Len(rows) : rows[i].Product # <<>>})

\* variant of quantities_filled: the cell is tested for truth, so 0 is unfilled
quantities_truthy(rows) == Cardinality({i \in 1..Len(rows) : truthy(rows[i].Quantity)})

\* line 180
quantities_filled(rows) ==
    Cardinality({i \in 1..Len(rows) : not_empty_str(rows[i].Quantity)})

\* line 181
unit_prices_filled(rows) ==
    Cardinality({i \in 1..Len(rows) : not_empty_str(rows[i].Unit_Price_USD)})

\* line 182
total_prices_filled(rows) ==
    Cardinality({i \in 1..Len(rows) : not_empty_str(rows[i].Total_Price_USD)})

\* variant of completion_rate: the slots are not multiplied by the three fields
completion_rate_per_row(rows) ==
    format_rate(quantities_filled(rows) + unit_prices_filled(rows)
                    + total_prices_filled(rows),
                Len(rows))

\* line 201
completion_rate(rows) ==
    format_rate(quantities_filled(rows) + unit_prices_filled(rows)
                    + total_prices_filled(rows),
                Len(rows) * OptionalFields)

\* lines 177-202: the report of a non-empty table
table_report(rows) ==
    [status |-> "Table data found",
     total_rows |-> Len(rows),
     fields_filled |->
         [products |-> format_ratio(products_filled(rows), Len(rows)),
          quantities |-> format_ratio(quantities_filled(rows), Len(rows)),
          unit_prices |-> format_ratio(unit_prices_filled(rows), Len(rows)),
          total_prices |-> format_ratio(total_prices_filled(rows), Len(rows))],
     calculated_totals |->
         [total_quantity |-> sum_numbers(rows, "Quantity", PyInt(0)),
          total_value |-> sum_numbers(rows, "Total_Price_USD", PyInt(0))],
     completion_rate |-> completion_rate(rows)]

\* variant of analyze_table: the empty table is reported with a row count
analyze_table_counting(rows) ==
    IF rows = <<>>
    THEN [status |-> "No table data found", total_rows |-> 0]
    ELSE table_report(rows)

\* lines 174-204
analyze_table(rows) ==
    IF rows = <<>>
    THEN [status |-> "No table data found"]
    ELSE table_report(rows)

\* test_final.py lines 8-11: the parsed rows are analyzed
AnalyzeTable ==
    /\ pc = "returned"
    /\ analysis' = analyze_table(table_data)
    /\ pc' = "analyzed"
    /\ UNCHANGED <<csv_file, text, lines, line_num, line, row, table_data, exc>>

(***************************************************************************)
(* save_to_csv                                                             *)
(***************************************************************************)
\* line 112
fieldnames ==
    <<<<"P", "r", "o", "d", "u", "c", "t">>,
      <<"Q", "u", "a", "n", "t", "i", "t", "y">>,
      <<"U", "n", "i", "t", "_", "P", "r", "i", "c", "e", "_", "U", "S", "D">>,
      <<"T", "o", "t", "a", "l", "_", "P", "r", "i", "c", "e", "_", "U", "S", "D">>,
      <<"S", "o", "u", "r", "c", "e", "_", "L", "i", "n", "e">>,
      <<"R", "a", "w", "_", "T", "e", "x", "t">>>>

\* int(qty), written by the csv writer as str(int)
format_int(x) == nat_digits(x.m \div Pow10(x.e))

\* number of decimals of the format of lines 139 and 149
PriceDecimals == 2

\* f"{float(x):.2f}"
format_2f(x) ==
    LET cents == round_div(x.m * Pow10(PriceDecimals), Pow10(x.e))
    IN  nat_digits(cents \div Pow10(PriceDecimals)) \o <<".">> \o
        frac_digits(cents % Pow10(PriceDecimals), PriceDecimals)

\* variant of csv_quantity: the cell is tested for truth, so 0 is written empty
csv_quantity_truthy(qty) == IF truthy(qty) THEN format_int(qty) ELSE <<>>

\* lines 125-133
csv_quantity(qty) == IF not_empty_str(qty) THEN format_int(qty) ELSE <<>>

\* lines 135-153
csv_price(price) == IF not_empty_str(price) THEN format_2f(price) ELSE <<>>

\* lines 119-159: the cells of a row in the order of fieldnames
csv_row(r) ==
    <<strip(r.Product),
      csv_quantity(r.Quantity),
      csv_price(r.Unit_Price_USD),
      csv_price(r.Total_Price_USD),
      nat_digits(r.Source_Line),
      strip(r.Raw_Text)>>

\* csv.QUOTE_MINIMAL: characters that make the writer quote a field
QuotedChars == {",", "\"", "\n", "\r"}

RECURSIVE double_quotes(_)
double_quotes(s) ==
    IF s = <<>> THEN <<>>
    ELSE (IF Head(s) = "\"" THEN <<"\"", "\"">> ELSE <<Head(s)>>)
         \o double_quotes(Tail(s))

\* a field as the writer of line 115 writes it
csv_field(s) ==
    IF \E i \in 1..Len(s) : s[i] \in QuotedChars
    THEN <<"\"">> \o double_quotes(s) \o <<"\"">>
    ELSE s

\* writer.writerow / writeheader: the fields joined by commas
RECURSIVE csv_record(_)
csv_record(cells) ==
    IF Len(cells) = 0 THEN <<>>
    ELSE IF Len(cells) = 1 THEN csv_field(cells[1])
    ELSE csv_field(cells[1]) \o <<",">> \o csv_record(Tail(cells))

\* lines 108-161: the file at csv_path after the call
save_to_csv(file, rows) ==
    IF rows = <<>>
    THEN file
    ELSE [exists |-> TRUE,
          records |-> <<csv_record(fieldnames)>> \o
                      [i \in 1..Len(rows) |-> csv_record(csv_row(rows[i]))]]

\* test_final.py line 28: the analyzed rows are saved
SaveToCsv ==
    /\ pc = "analyzed"
    /\ csv_file' = save_to_csv(csv_file, table_data)
    /\ pc' = "saved"
    /\ UNCHANGED <<text, lines, line_num, line, row, table_data, exc, analysis>>

(***************************************************************************)
(* Specifications                                                          *)
(***************************************************************************)
Next ==
    \/ Start
    \/ SkipBlank
    \/ SkipLine
    \/ NewRow
    \/ ExtractProduct
    \/ TierA
    \/ TierB
    \/ TierC
    \/ Recover
    \/ AppendRow
    \/ Return
    \/ AnalyzeTable
    \/ SaveToCsv

Spec == Init /\ [][Next]_vars

\* Rows as a caller may hand them to analyze_table
ProductValues == {<<>>, <<"A", "B", "C">>}

QuantityValues == {EMPTY, PyInt(0), PyInt(4)}

PriceValues == {EMPTY, PyFloat(0, 0), PyFloat(25, 1)}

SampleRows ==
    [Product : ProductValues, Quantity : QuantityValues,
     Unit_Price_USD : PriceValues, Total_Price_USD : PriceValues,
     Source_Line : {1}, Raw_Text : {<<>>}]

RowSequences == UNION {[1..k -> SampleRows] : k \in 0..MaxRows}

\* analyze_table called on any row sequence
InitRows ==
    /\ table_data \in RowSequences
    /\ text = <<>>
    /\ lines = <<>>
    /\ line_num = 0
    /\ line = <<>>
    /\ row = NoRow
    /\ exc = "none"
    /\ analysis = NoAnalysis
    /\ csv_file = NoFile
    /\ pc = "returned"

NextRows == AnalyzeTable \/ SaveToCsv

SpecRows == InitRows /\ [][NextRows]_vars

(***************************************************************************)
(* Properties of parse_invoice_table                                       *)
(***************************************************************************)
\* the row emitted for line k of lines, if any
RowsOfLine(k) == {i \in 1..Len(table_data) : table_data[i].Source_Line = k}

\* line k of lines has been passed by the loop
Scanned(k) ==
    k < line_num \/ (k = line_num /\ pc \in {"loop", "returned", "analyzed", "saved"})

\* C1: parse_invoice_table never raises, whatever the text: a tier that
\* matched a token that is no number counts as a non-match and the scan goes
\* on to return a row list.
C1_NeverRaises == exc = "none" /\ pc # "raised"

\* C2: a row emitted for a line whose tail matches tier A (and so tier C)
\* carries tier A's extraction: the quantity, unit price and total price that
\* tier A captured, all three filled.
C2_TierAPrecedence ==
    \A i \in 1..Len(table_data) :
        LET r == table_data[i]
            a == clean_pattern(r.Raw_Text)
        IN  (a.ok /\ price_pattern(r.Raw_Text).ok) =>
                /\ r.Quantity = PyInt(to_int(a.g1))
                /\ r.Unit_Price_USD = float(a.g2)
                /\ r.Total_Price_USD = float(remove_commas(a.g3))

\* C3: every emitted row has a product name longer than 2 characters; a
\* candidate line whose cleaned name is that short, or that has no name,
\* leaves no row.
C3_RejectionInvariant ==
    /\ \A i \in 1..Len(table_data) :
          table_data[i].Product # <<>> /\ Len(table_data[i].Product) > 2
    /\ \A k \in 1..Len(lines) :
          LET l == strip(lines[k])
              product == product_match(l)
          IN  (Scanned(k) /\ (~product.ok \/ Len(product_clean(product.g1)) <= 2))
                  => RowsOfLine(k) = {}

\* C3 witness: a candidate line with a two-character name was dropped while
\* another line gave a row.
C3_Witness ==
    /\ pc = "returned"
    /\ table_data # <<>>
    /\ \E k \in 1..Len(lines) :
          LET product == product_match(strip(lines[k]))
          IN  /\ product.ok
              /\ Len(product_clean(product.g1)) = 2
              /\ RowsOfLine(k) = {}

\* the lines that have to give a row: candidate, with a name longer than 2
GivesRow(l) ==
    /\ l # <<>>
    /\ contains(upper(l), CHINA)
    /\ product_match(l).ok
    /\ Len(product_clean(product_match(l).g1)) > 2

\* C4: the rows are in the order of their lines (Source_Line never
\* decreases along the sequence) and none is dropped as a duplicate: every
\* line that gives a row gives its own.
C4_LineOrder ==
    /\ \A i, j \in 1..Len(table_data) :
          i < j => table_data[i].Source_Line <= table_data[j].Source_Line
    /\ pc = "returned" =>
          \A k \in 1..Len(lines) :
              GivesRow(strip(lines[k])) => Cardinality(RowsOfLine(k)) = 1

\* C4 witness: two identical candidate lines gave two rows.
C4_Witness ==
    /\ pc = "returned"
    /\ Len(table_data) = 2
    /\ table_data[1].Raw_Text = table_data[2].Raw_Text
    /\ table_data[1].Source_Line < table_data[2].Source_Line

\* C5 as stated: every emitted row comes from a line that contains,
\* ignoring case, the literal marker "HSO CHINA".
C5_LiteralMarker ==
    \A i \in 1..Len(table_data) :
        contains(upper(table_data[i].Raw_Text), HSO_CHINA)

\* s contains HSO, one or more whitespace characters, CHINA, ignoring case
ContainsMarker(s) ==
    LET u == upper(s)
    IN  \E p \in 1..Len(s) :
            /\ StartsAt(u, p, HSO)
            /\ \E q \in (p + 3)..Len(s) :
                  /\ \A k \in (p + 3)..q : s[k] \in Whitespace
                  /\ StartsAt(u, q + 1, CHINA)

\* C5 amended: every emitted row comes from a line that contains, ignoring
\* case, HSO and CHINA separated by one or more whitespace characters; a
\* text with no such line gives no rows.
C5_MarkerRequired ==
    /\ \A i \in 1..Len(table_data) : ContainsMarker(table_data[i].Raw_Text)
    /\ (\A k \in 1..Len(lines) : ~ContainsMarker(lines[k])) => table_data = <<>>

\* C5 witness: a text returned a row for a line whose marker has two blanks or
\* a tab inside, and none for a line without the marker.
C5_Witness ==
    /\ pc = "returned"
    /\ Len(lines) = 2
    /\ Len(table_data) = 1
    /\ ~contains(upper(table_data[1].Raw_Text), HSO_CHINA)
    /\ \E k \in 1..2 : ~ContainsMarker(lines[k]) /\ strip(lines[k]) # <<>>

\* C6: Source_Line of a row is the 1-based number of its line in the text
\* handed to parse_invoice_table, and Raw_Text is that line stripped.
C6_SourceLine ==
    \A i \in 1..Len(table_data) :
        LET r == table_data[i]
            source == split(text)
        IN  /\ r.Source_Line \in 1..Len(source)
            /\ r.Raw_Text = strip(source[r.Source_Line])

(***************************************************************************)
(* Properties of analyze_table                                             *)
(***************************************************************************)
\* a numeric cell is filled: it does not hold the unfilled sentinel ''
Filled(x) == x # EMPTY

\* the sum of the filled cells of a field, as an exact decimal
RECURSIVE SumFilled(_, _)
SumFilled(rows, field) ==
    IF rows = <<>> THEN PyInt(0)
    ELSE LET last == rows[Len(rows)]
             rest == SumFilled(SubSeq(rows, 1, Len(rows) - 1), field)
         IN  IF Filled(last[field]) THEN add(rest, last[field]) ELSE rest

\* x == y on numbers (0 == 0.0)
NumEq(x, y) == x.m * Pow10(y.e) = y.m * Pow10(x.e)

\* C7: for a non-empty table, total_value is the sum of Total_Price_USD over
\* exactly the rows where it is filled, and total_quantity the sum of Quantity
\* over exactly the rows where it is filled, whatever the other cells hold.
C7_SumCorrectness ==
    (pc = "analyzed" /\ table_data # <<>>) =>
        /\ NumEq(analysis.calculated_totals.total_value,
                 SumFilled(table_data, "Total_Price_USD"))
        /\ NumEq(analysis.calculated_totals.total_quantity,
                 SumFilled(table_data, "Quantity"))

\* C7 witness: a table was analyzed in which one row has a total but no
\* quantity and another a quantity but no total, both sums being positive.
C7_Witness ==
    /\ pc = "analyzed"
    /\ \E i, j \in 1..Len(table_data) :
          /\ Filled(table_data[i].Total_Price_USD) /\ ~Filled(table_data[i].Quantity)
          /\ Filled(table_data[j].Quantity) /\ ~Filled(table_data[j].Total_Price_USD)
    /\ analysis.calculated_totals.total_value.m > 0
    /\ analysis.calculated_totals.total_quantity.m > 0

\* the number of tenths of a percent that the text "dd.d%" stands for
RECURSIVE RateTenths(_)
RateTenths(s) ==
    IF s = <<>> THEN 0
    ELSE IF s[Len(s)] \in DigitSet
         THEN 10 * RateTenths(SubSeq(s, 1, Len(s) - 1)) + DigitVal(s[Len(s)])
         ELSE RateTenths(SubSeq(s, 1, Len(s) - 1))

\* C8: for a non-empty table, completion_rate is a percentage from 0 to 100.
C8_RateBound ==
    (pc = "analyzed" /\ table_data # <<>>) =>
        /\ RateTenths(analysis.completion_rate) >= 0
        /\ RateTenths(analysis.completion_rate) <= 1000

\* C8 witness: a table with every numeric cell filled was analyzed (100%).
C8_Witness ==
    /\ pc = "analyzed"
    /\ Len(table_data) >= 2
    /\ \A i \in 1..Len(table_data) :
          /\ Filled(table_data[i].Quantity)
          /\ Filled(table_data[i].Unit_Price_USD)
          /\ Filled(table_data[i].Total_Price_USD)
    /\ RateTenths(analysis.completion_rate) = 1000

\* the filled numeric cells of a table
FilledSlots(rows) ==
    {<<i, f>> \in (1..Len(rows)) \X {"Quantity", "Unit_Price_USD", "Total_Price_USD"} :
        Filled(rows[i][f])}

\* C9: for a non-empty table, completion_rate is the number of filled
\* Quantity, Unit_Price_USD and Total_Price_USD cells over 3 x the row count,
\* as a percentage with one decimal; Product does not count, and a cell
\* holding 0 counts as filled.
C9_RateValue ==
    (pc = "analyzed" /\ table_data # <<>>) =>
        RateTenths(analysis.completion_rate) =
            round_div(1000 * Cardinality(FilledSlots(table_data)),
                      3 * Len(table_data))

\* C9 witness: the analyzed table has a row with quantity 0, and a row with an
\* empty product, and is neither empty nor full.
C9_Witness ==
    /\ pc = "analyzed"
    /\ \E i \in 1..Len(table_data) : table_data[i].Quantity = PyInt(0)
    /\ \E i \in 1..Len(table_data) : table_data[i].Product = <<>>
    /\ RateTenths(analysis.completion_rate) \in 1..999

\* C10: parse_invoice_table of the empty text returns no rows, and
\* analyze_table of no rows returns a report with the "no data found" status
\* as its only field.
C10_EmptyInput ==
    /\ (text = <<>> /\ pc \in {"returned", "analyzed", "saved"}) => table_data = <<>>
    /\ (text = <<>> /\ pc # "start") => (exc = "none" /\ lines = << <<>> >>)
    /\ (pc = "analyzed" /\ table_data = <<>>) =>
          /\ DOMAIN analysis = {"status"}
          /\ analysis.status = "No table data found"

\* C10 witness: the empty text was parsed and its empty row list analyzed.
C10_Witness ==
    /\ text = <<>>
    /\ pc = "analyzed"
    /\ table_data = <<>>

(***************************************************************************)
(* Properties of the numeric cells of the emitted rows                     *)
(***************************************************************************)
\* the match of the first tier that matches line l
TierMatch(l) ==
    LET a == clean_pattern(l)
        b == colon_pattern(l)
        c == price_pattern(l)
    IN  IF a.ok THEN [tier |-> "A", match |-> a]
        ELSE IF b.ok THEN [tier |-> "B", match |-> b]
        ELSE IF c.ok THEN [tier |-> "C", match |-> c]
        ELSE [tier |-> "none", match |-> NoMatch]

\* float() fails on the total that the matching tier captured in line l
LineRaises(l) ==
    /\ TierMatch(l).tier # "none"
    /\ ~float_ok(remove_commas(TierMatch(l).match.g3))

\* the cells that lines 35-91 give a candidate line l taken on its own
LineRow(l) ==
    LET product == product_match(l)
        named == IF product.ok
                 THEN [NoRow EXCEPT !.Raw_Text = l,
                                    !.Product = product_clean(product.g1)]
                 ELSE [NoRow EXCEPT !.Raw_Text = l]
        tm == TierMatch(l)
        priced == IF tm.tier \in {"A", "B"} THEN fill_three(named, tm.match)
                  ELSE IF tm.tier = "C" THEN fill_prices(named, tm.match)
                  ELSE named
        qty_match == qty_pattern(l, str_float(priced.Unit_Price_USD))
    IN  IF needs_recovery(priced) /\ qty_match.ok
        THEN [priced EXCEPT !.Quantity = PyInt(to_int(qty_match.g1))]
        ELSE priced

\* line l taken on its own gives a row
LineGivesRow(l) ==
    l # <<>> /\ is_candidate(l) /\ ~LineRaises(l) /\ keep_row(LineRow(l))

NumericFields == {"Quantity", "Unit_Price_USD", "Total_Price_USD"}

\* tails of product lines: up to MaxProbeTokens tokens after the marker
ProbeTokens ==
    {<<"4">>,
     <<"0">>,
     <<"2", ".", "0", "0">>,
     <<"0", ".", "0", "0">>,
     <<"2">>,
     <<"1", ",", "0", "0", "0">>,
     <<":">>,
     <<"i">>,
     <<"4", ".">>}

MaxProbeTokens == 3

RECURSIVE join_tokens(_)
join_tokens(ts) ==
    IF ts = <<>> THEN <<>> ELSE <<" ">> \o Head(ts) \o join_tokens(Tail(ts))

ProbeLines ==
    SampleLines \cup
    {<<"A", "B", "C", " ">> \o HSO_CHINA \o join_tokens(ts) :
        ts \in UNION {[1..k -> ProbeTokens] : k \in 0..MaxProbeTokens}}

\* C11 as stated: the numeric cells of emitted rows are independently
\* optional: for any two of quantity, unit price and total price some line
\* gives a row with the one filled and the other unfilled (so quantity without
\* prices as well as prices without quantity).
C11_IndependentFields ==
    \A x, y \in NumericFields :
        x # y =>
            \E l \in ProbeLines :
                /\ LineGivesRow(l)
                /\ LineRow(l)[x] # EMPTY
                /\ LineRow(l)[y] = EMPTY

\* C11 amended: in emitted rows quantity may be unfilled while the prices are
\* filled, but not the reverse: a filled quantity comes with both prices
\* filled, and a filled price comes with the other price filled.
C11_QuantityNeedsPrices ==
    \A i \in 1..Len(table_data) :
        LET r == table_data[i]
        IN  /\ r.Quantity # EMPTY =>
                  (r.Unit_Price_USD # EMPTY /\ r.Total_Price_USD # EMPTY)
            /\ r.Unit_Price_USD # EMPTY => r.Total_Price_USD # EMPTY
            /\ r.Total_Price_USD # EMPTY => r.Unit_Price_USD # EMPTY

\* C11 witness: the returned rows hold one with prices and no quantity and one
\* with all three cells filled.
C11_Witness ==
    /\ pc = "returned"
    /\ \E i \in 1..Len(table_data) :
          /\ table_data[i].Quantity = EMPTY
          /\ table_data[i].Unit_Price_USD # EMPTY
          /\ table_data[i].Total_Price_USD # EMPTY
    /\ \E i \in 1..Len(table_data) :
          /\ table_data[i].Quantity # EMPTY
          /\ table_data[i].Unit_Price_USD # EMPTY
          /\ table_data[i].Total_Price_USD # EMPTY

\* the number of filled numeric cells of row r
FilledCount(r) == Cardinality({f \in NumericFields : r[f] # EMPTY})

\* C18: in every emitted row the unit price is filled exactly when the total
\* price is, and the quantity only when both are: 0, 2 or 3 of the three
\* numeric cells are filled.
C18_FillShapes ==
    \A i \in 1..Len(table_data) :
        LET r == table_data[i]
        IN  /\ (r.Unit_Price_USD # EMPTY) <=> (r.Total_Price_USD # EMPTY)
            /\ FilledCount(r) \in {0, 2, 3}
            /\ FilledCount(r) = 2 => r.Quantity = EMPTY

\* C18 witness: the returned rows hold one with no numeric cell filled and
\* one with exactly the two prices filled.
C18_Witness ==
    /\ pc = "returned"
    /\ \E i \in 1..Len(table_data) : FilledCount(table_data[i]) = 0
    /\ \E i \in 1..Len(table_data) : FilledCount(table_data[i]) = 2

(***************************************************************************)
(* Claims about single lines: independence, product names, recovery        *)
(***************************************************************************)
\* the parse has ended, by a return or by an exception
Ended == pc \in {"returned", "analyzed", "saved", "raised"}

\* rows r and q agree on every field but Source_Line
SameFields(r, q) ==
    /\ r.Product = q.Product
    /\ r.Quantity = q.Quantity
    /\ r.Unit_Price_USD = q.Unit_Price_USD
    /\ r.Total_Price_USD = q.Total_Price_USD
    /\ r.Raw_Text = q.Raw_Text

\* C14: the row of a line depends on that line's text only: whatever the
\* other lines of the text are, a line that gives a row when taken on its own
\* has that same row (Source_Line aside) in the result.
C14_LineIndependence ==
    Ended =>
        \A k \in 1..Len(lines) :
            LET l == strip(lines[k])
            IN  LineGivesRow(l) =>
                    /\ pc # "raised"
                    /\ \E i \in RowsOfLine(k) :
                           SameFields(table_data[i], LineRow(l))

\* HSO, whitespace, CHINA starts at position p of s, ignoring case
MarkerStartsAt(s, p) ==
    LET u == upper(s)
    IN  /\ StartsAt(u, p, HSO)
        /\ \E q \in (p + 3)..Len(s) :
              /\ \A k \in (p + 3)..q : s[k] \in Whitespace
              /\ StartsAt(u, q + 1, CHINA)

\* a is b with some characters left out, a whitespace character of b
\* counting as a space
RECURSIVE IsSubsequence(_, _)
IsSubsequence(a, b) ==
    IF a = <<>> THEN TRUE
    ELSE IF b = <<>> THEN FALSE
    ELSE IF Head(a) = Head(b) \/ (Head(a) = " " /\ Head(b) \in Whitespace)
         THEN IsSubsequence(Tail(a), Tail(b))
         ELSE IsSubsequence(a, Tail(b))

\* the characters of s that are neither digits nor whitespace
Letters(s) == SelectSeq(s, LAMBDA c : c \notin DigitSet \cup Whitespace)

\* s has MinCodeDigits consecutive digits
HasLongDigitRun(s) ==
    \E p \in 1..Len(s) :
        /\ p + MinCodeDigits - 1 <= Len(s)
        /\ \A k \in p..(p + MinCodeDigits - 1) : s[k] \in DigitSet

\* C15: the Product of every emitted row is taken from the text before an
\* origin marker of its line (its characters in their order, every letter
\* kept), has no run of 8 or more digits, no two adjacent whitespace
\* characters, and no whitespace at either end.
C15_ProductNormalised ==
    \A i \in 1..Len(table_data) :
        LET name == table_data[i].Product
            raw  == table_data[i].Raw_Text
        IN  /\ \E p \in 2..Len(raw) :
                  /\ MarkerStartsAt(raw, p)
                  /\ IsSubsequence(name, SubSeq(raw, 1, p - 1))
                  /\ Letters(name) = Letters(SubSeq(raw, 1, p - 1))
            /\ ~HasLongDigitRun(name)
            /\ \A k \in 1..(Len(name) - 1) :
                  ~(name[k] \in Whitespace /\ name[k + 1] \in Whitespace)
            /\ name # <<>> => (name[1] \notin Whitespace
                               /\ name[Len(name)] \notin Whitespace)

\* a row whose line has a long digit run and two whitespace runs before the
\* marker, and whose Product has lost them
C15_Witness ==
    \E i \in 1..Len(table_data) :
        LET name == table_data[i].Product
            raw  == table_data[i].Raw_Text
        IN  \E p \in 2..Len(raw) :
                /\ MarkerStartsAt(raw, p)
                /\ HasLongDigitRun(SubSeq(raw, 1, p - 1))
                /\ Len(name) < p - 1 - MinCodeDigits
                /\ \E k \in 1..Len(name) : name[k] = " "

\* C16: the recovery pass never overrides tier A or tier B: an emitted row
\* whose line matched tier A or tier B has the quantity that tier captured,
\* the value 0 included.
C16_TierQuantityKept ==
    \A i \in 1..Len(table_data) :
        LET tm == TierMatch(table_data[i].Raw_Text)
        IN  tm.tier \in {"A", "B"} =>
                table_data[i].Quantity = PyInt(to_int(tm.match.g1))

\* first position of the unit-price token that tier C captured in line l
UnitTokenStart(l) ==
    LET c == price_pattern(l)
        t == Len(l) - Len(c.g3) + 1
    IN  RunStart(l, t - 1, Whitespace) - Len(c.g2)

\* the bare integer right before position u of l, separated from it by
\* whitespace or by a period with optional whitespace around it
PrecedingInteger(l, u) ==
    LET w1 == RunStart(l, u - 1, Whitespace)
        w2 == RunStart(l, w1 - 2, Whitespace)
        e  == IF w1 < u /\ w1 >= 2 /\ l[w1 - 1] \in DigitSet THEN w1 - 1
              ELSE IF w1 >= 2 /\ l[w1 - 1] = "." /\ w2 >= 2
                      /\ l[w2 - 1] \in DigitSet THEN w2 - 1
              ELSE 0
    IN  IF e = 0 THEN [ok |-> FALSE, digits |-> <<>>]
        ELSE [ok |-> TRUE, digits |-> SubSeq(l, RunStart(l, e, DigitSet), e)]

\* C17: an emitted row whose line matched tier C only has both prices
\* filled, and its Quantity is the bare integer that stands right before the
\* unit-price token of the line (after whitespace or a stray period) if there
\* is one, and is unfilled otherwise.
C17_RecoveryAtToken ==
    \A i \in 1..Len(table_data) :
        LET r  == table_data[i]
            tm == TierMatch(r.Raw_Text)
            q  == PrecedingInteger(r.Raw_Text, UnitTokenStart(r.Raw_Text))
        IN  tm.tier = "C" =>
                /\ r.Unit_Price_USD = float(tm.match.g2)
                /\ r.Total_Price_USD = float(remove_commas(tm.match.g3))
                /\ r.Quantity = IF q.ok THEN PyInt(to_int(q.digits)) ELSE EMPTY

(***************************************************************************)
(* Claims about the CSV export                                             *)
(***************************************************************************)
\* the cells of a record as a CSV reader splits it: cur is the cell read so
\* far, q tells whether position p is inside a quoted field
RECURSIVE CsvCells(_, _, _, _)
CsvCells(s, p, cur, q) ==
    IF p > Len(s) THEN <<cur>>
    ELSE IF q
    THEN IF s[p] = "\""
         THEN IF p < Len(s) /\ s[p + 1] = "\""
              THEN CsvCells(s, p + 2, Append(cur, "\""), TRUE)
              ELSE CsvCells(s, p + 1, cur, FALSE)
         ELSE CsvCells(s, p + 1, Append(cur, s[p]), TRUE)
    ELSE IF s[p] = "," THEN <<cur>> \o CsvCells(s, p + 1, <<>>, FALSE)
    ELSE IF s[p] = "\"" /\ cur = <<>> THEN CsvCells(s, p + 1, cur, TRUE)
    ELSE CsvCells(s, p + 1, Append(cur, s[p]), FALSE)

ReadRecord(s) == CsvCells(s, 1, <<>>, FALSE)

\* the column order the export promises
ColumnOrder ==
    <<<<"P", "r", "o", "d", "u", "c", "t">>,
      <<"Q", "u", "a", "n", "t", "i", "t", "y">>,
      <<"U", "n", "i", "t", "_", "P", "r", "i", "c", "e", "_", "U", "S", "D">>,
      <<"T", "o", "t", "a", "l", "_", "P", "r", "i", "c", "e", "_", "U", "S", "D">>,
      <<"S", "o", "u", "r", "c", "e", "_", "L", "i", "n", "e">>,
      <<"R", "a", "w", "_", "T", "e", "x", "t">>>>

\* C12: after save_to_csv has completed, for any row sequence, the empty one
\* included, the file exists, its first record is the header with the fixed
\* column order, and exactly one record per row follows it.
C12_HeaderAlways ==
    pc = "saved" =>
        /\ csv_file.exists
        /\ Len(csv_file.records) = 1 + Len(table_data)
        /\ ReadRecord(csv_file.records[1]) = ColumnOrder

\* the cells written for row i of the table
SavedCells(i) == ReadRecord(csv_file.records[i + 1])

ZeroQuantityCell == <<"0">>
ZeroPriceCell == <<"0", ".", "0", "0">>

\* C13: in every record written for a row, the cell of a numeric field is
\* empty exactly when the field is unfilled in the row; a filled quantity 0 is
\* written as "0" and a filled price 0.0 as "0.00".
C13_EmptyIffUnfilled ==
    (pc = "saved" /\ table_data # <<>>) =>
        \A i \in 1..Len(table_data) :
            LET r == table_data[i]
                c == SavedCells(i)
            IN  /\ Len(c) = Len(ColumnOrder)
                /\ (c[2] = <<>>) <=> ~Filled(r.Quantity)
                /\ (c[3] = <<>>) <=> ~Filled(r.Unit_Price_USD)
                /\ (c[4] = <<>>) <=> ~Filled(r.Total_Price_USD)
                /\ (Filled(r.Quantity) /\ r.Quantity.m = 0)
                       => c[2] = ZeroQuantityCell
                /\ (Filled(r.Unit_Price_USD) /\ r.Unit_Price_USD.m = 0)
                       => c[3] = ZeroPriceCell
                /\ (Filled(r.Total_Price_USD) /\ r.Total_Price_USD.m = 0)
                       => c[4] = ZeroPriceCell

\* a saved table with a row whose quantity is 0 and whose unit price is 0.0,
\* and with a row that has an unfilled numeric field
C13_Witness ==
    /\ pc = "saved"
    /\ csv_file.exists
    /\ \E i \in 1..Len(table_data) :
           /\ Filled(table_data[i].Quantity)
           /\ table_data[i].Quantity.m = 0
           /\ Filled(table_data[i].Unit_Price_USD)
           /\ table_data[i].Unit_Price_USD.m = 0
           /\ SavedCells(i)[2] = ZeroQuantityCell
           /\ SavedCells(i)[3] = ZeroPriceCell
    /\ \E i \in 1..Len(table_data) :
           /\ ~Filled(table_data[i].Total_Price_USD)
           /\ SavedCells(i)[4] = <<>>

====
